---- MODULE Spec2Model ----
(***************************************************************************)
(* Alert derivation and lifecycle engine of ShipmentTrackr.                *)
(*                                                                         *)
(* Modelled from src/src/services/alertService.js (rule engine, dedup,     *)
(* cleanup), src/src/hooks/useAlerts.js (the useAlerts hook of lines       *)
(* 97-223: alert state, generation effect, dismiss / markRead / clearAll), *)
(* src/unnamed/part_000 (useShipmentStore) and src/unnamed/part_003        *)
(* (mock carrier API).                                                     *)
(*                                                                         *)
(* Time is an integer number of ticks; TicksPerHour ticks make one hour,   *)
(* so that Math.floor / Math.ceil over hours and days are not identities.  *)
(***************************************************************************)
EXTENDS Integers, Sequences, FiniteSets, TLC

\* ---------------------------------------------------------------- bounds
TicksPerHour == 2
MaxTicks == 1
MaxAlertId == 4
MaxShipmentId == 3
MaxStoreOps == 2
MaxUserOps == 2
MaxFailAt == 2
MaxCycleFailAt == 1
MaxRestarts == 1

\* ------------------------------------------------------- time arithmetic
HOUR == TicksPerHour
DAY == 24 * HOUR

\* the wall clock of the first render, late enough for the sample history
StartTime == 4 * DAY

\* how far an idle period moves the wall clock
TickStep == 8 * DAY

\* a Date that is null / undefined
NoTime == -1

\* a field that is absent (undefined) on the JavaScript object
Undefined == "undefined"

\* Math.ceil(a / b) and Math.floor(a / b) for b > 0
CeilDiv(a, b) == -((-a) \div b)
FloorDiv(a, b) == a \div b

\* ------------------------------------------------------ sequence helpers
Range(seq) == {seq[i] : i \in DOMAIN seq}

\* Array.prototype.find on shipmentId: whether there is a match, and the
\* first match
HasShipment(list, shipmentId) ==
  \E i \in DOMAIN list : list[i].shipmentId = shipmentId

FindShipment(list, shipmentId) ==
  list[CHOOSE i \in DOMAIN list :
         /\ list[i].shipmentId = shipmentId
         /\ \A j \in 1..(i - 1) : list[j].shipmentId # shipmentId]

\* ------------------------------------------------------------ alert types
ALERT_TYPES ==
  [DELAY_DETECTED |-> [type |-> "warning", priority |-> "high",
                       title |-> "Shipment Delayed", icon |-> "warn"],
   DELIVERY_SOON  |-> [type |-> "info", priority |-> "medium",
                       title |-> "Delivery Today", icon |-> "package"],
   DELIVERED      |-> [type |-> "success", priority |-> "medium",
                       title |-> "Package Delivered", icon |-> "check"],
   EXCEPTION      |-> [type |-> "error", priority |-> "high",
                       title |-> "Delivery Exception", icon |-> "cross"],
   WEATHER_DELAY  |-> [type |-> "warning", priority |-> "medium",
                       title |-> "Weather Delay", icon |-> "rain"],
   CUSTOMS_DELAY  |-> [type |-> "warning", priority |-> "medium",
                       title |-> "Customs Processing", icon |-> "customs"],
   ADDRESS_ISSUE  |-> [type |-> "error", priority |-> "high",
                       title |-> "Address Problem", icon |-> "house"]]

\* ------------------------------------------------------- location strings
\* String.prototype.toLowerCase on the location texts the model uses
ToLowerCase ==
  [s \in {"Package received", "Memphis, TN", "Atlanta, GA", "Weather delay",
          "Louisville, KY", "Indianapolis, IN", "Chicago, IL",
          "Los Angeles, CA", "Oakland, CA", "Newark, NJ", "New York, NY",
          "Cincinnati, OH", "Miami, FL", "In Transit", "Updated location 2",
          "Updated location 3", "Updated location 4",
          "Weather delay in transit", "CUSTOMS hold", "Bad Address",
          "Weather conditions causing delays", "Customs processing delay",
          "Address verification required", "Unexpected delay in transit"} |->
     CASE s = "Package received" -> "package received"
       [] s = "Memphis, TN" -> "memphis, tn"
       [] s = "Atlanta, GA" -> "atlanta, ga"
       [] s = "Weather delay" -> "weather delay"
       [] s = "Louisville, KY" -> "louisville, ky"
       [] s = "Indianapolis, IN" -> "indianapolis, in"
       [] s = "Chicago, IL" -> "chicago, il"
       [] s = "Los Angeles, CA" -> "los angeles, ca"
       [] s = "Oakland, CA" -> "oakland, ca"
       [] s = "Newark, NJ" -> "newark, nj"
       [] s = "New York, NY" -> "new york, ny"
       [] s = "Cincinnati, OH" -> "cincinnati, oh"
       [] s = "Miami, FL" -> "miami, fl"
       [] s = "In Transit" -> "in transit"
       [] s = "Updated location 2" -> "updated location 2"
       [] s = "Updated location 3" -> "updated location 3"
       [] s = "Updated location 4" -> "updated location 4"
       [] s = "Weather delay in transit" -> "weather delay in transit"
       [] s = "CUSTOMS hold" -> "customs hold"
       [] s = "Bad Address" -> "bad address"
       [] s = "Weather conditions causing delays" -> "weather conditions causing delays"
       [] s = "Customs processing delay" -> "customs processing delay"
       [] s = "Address verification required" -> "address verification required"
       [] s = "Unexpected delay in transit" -> "unexpected delay in transit"]

\* String.prototype.includes(word) on a lower-cased text, for the three
\* words the service looks for
Includes(lower, word) ==
  CASE word = "weather" -> lower \in {"weather delay", "weather delay in transit",
                                      "weather conditions causing delays"}
    [] word = "customs" -> lower \in {"customs hold", "customs processing delay"}
    [] word = "address" -> lower \in {"bad address", "address verification required"}

\* --------------------------------------------------------- rule engine
\* createAlert.  The id (Date.now() plus a random suffix in the source) is
\* a fresh value nothing looks into before admission: StampIds draws it
\* from the counter nextAlertId for the candidates that are admitted
createAlert(alertType, message, shipment, pattern, now) ==
  [id |-> 0,
   type |-> alertType.type,
   priority |-> alertType.priority,
   title |-> alertType.title,
   message |-> message,
   icon |-> alertType.icon,
   timestamp |-> now,
   shipmentId |-> shipment.shipmentId,
   trackingNumber |-> shipment.trackingNumber,
   dismissed |-> FALSE,
   dismissedAt |-> NoTime,
   read |-> FALSE,
   readAt |-> NoTime,
   metadata |-> [carrier |-> shipment.carrier, status |-> shipment.status,
                 pattern |-> pattern]]

StampIds(list, base) == [i \in DOMAIN list |-> [list[i] EXCEPT !.id = base + i]]

\* variant: the first entry of the history is looked at, not the last
getDelayReasonFirstEntry(shipment) ==
  LET h == shipment.historicalStatuses
      hasLatest == Len(h) > 0
      lower == ToLowerCase[h[1].location]
  IN  IF hasLatest /\ Includes(lower, "weather") THEN "Weather conditions causing delays"
      ELSE IF hasLatest /\ Includes(lower, "customs") THEN "Customs processing delay"
      ELSE IF hasLatest /\ Includes(lower, "address") THEN "Address verification required"
      ELSE "Unexpected delay in transit"

getDelayReason(shipment) ==
  LET h == shipment.historicalStatuses
      hasLatest == Len(h) > 0
      lower == ToLowerCase[h[Len(h)].location]
  IN  IF hasLatest /\ Includes(lower, "weather") THEN "Weather conditions causing delays"
      ELSE IF hasLatest /\ Includes(lower, "customs") THEN "Customs processing delay"
      ELSE IF hasLatest /\ Includes(lower, "address") THEN "Address verification required"
      ELSE "Unexpected delay in transit"

getDelayAlertType(reason) ==
  IF Includes(ToLowerCase[reason], "weather") THEN ALERT_TYPES.WEATHER_DELAY
  ELSE IF Includes(ToLowerCase[reason], "customs") THEN ALERT_TYPES.CUSTOMS_DELAY
  ELSE IF Includes(ToLowerCase[reason], "address") THEN ALERT_TYPES.ADDRESS_ISSUE
  ELSE ALERT_TYPES.DELAY_DETECTED

\* variant: whole days only
getDaysOverdueFloor(estimatedDelivery, now) == FloorDiv(now - estimatedDelivery, DAY)

getDaysOverdue(estimatedDelivery, now) == CeilDiv(now - estimatedDelivery, DAY)

getHoursSinceUpdate(shipment, now) == FloorDiv(now - shipment.lastUpdated, HOUR)

isShipmentStuck(shipment, now) ==
  IF shipment.status = "delivered" THEN FALSE
  ELSE /\ getHoursSinceUpdate(shipment, now) > 48
       /\ shipment.status \in {"in_transit", "pending"}

hasUnusualRouting(shipment) ==
  IF Len(shipment.historicalStatuses) < 3 THEN FALSE
  ELSE LET locations == [i \in DOMAIN shipment.historicalStatuses |->
                           shipment.historicalStatuses[i].location]
           uniqueLocations == Range(locations)
       IN  Len(locations) > Cardinality(uniqueLocations) + 1

\* the message returned, or Undefined for the source's null
detectCarrierIssues(shipment, now) ==
  IF shipment.carrier = "usps" /\ getHoursSinceUpdate(shipment, now) > 72
    THEN "USPS packages often experience delays during peak seasons"
  ELSE IF /\ shipment.carrier = "fedex"
          /\ shipment.status = "in_transit"
          /\ Len(shipment.historicalStatuses) > 0
          /\ FloorDiv(now - shipment.historicalStatuses[1].timestamp, DAY) > 5
    THEN "FedEx shipment has been in transit longer than typical"
  ELSE Undefined

detectAdvancedPatterns(shipment, now) ==
  (IF hasUnusualRouting(shipment)
     THEN <<createAlert(ALERT_TYPES.EXCEPTION,
                        <<shipment.nickname, "is taking an unusual route">>,
                        shipment, "unusual_routing", now)>>
     ELSE <<>>)
  \o
  (IF detectCarrierIssues(shipment, now) # Undefined
     THEN <<createAlert(ALERT_TYPES.DELAY_DETECTED,
                        <<shipment.nickname, detectCarrierIssues(shipment, now)>>,
                        shipment, "carrier_issue", now)>>
     ELSE <<>>)

\* analyzeShipmentForAlerts; hasPremium is the value hasPremiumFeatures()
\* returns during the call
analyzeShipmentForAlerts(shipment, previousStatus, now, hasPremium) ==
  (IF /\ shipment.estimatedDelivery # NoTime
      /\ now > shipment.estimatedDelivery
      /\ shipment.status # "delivered" /\ shipment.status # "delayed"
     THEN <<createAlert(ALERT_TYPES.DELAY_DETECTED,
                        <<shipment.nickname, "is",
                          getDaysOverdue(shipment.estimatedDelivery, now),
                          "day(s) overdue">>,
                        shipment, Undefined, now)>>
     ELSE <<>>)
  \o
  (IF shipment.status = "delayed"
     THEN <<createAlert(getDelayAlertType(getDelayReason(shipment)),
                        <<shipment.nickname, getDelayReason(shipment)>>,
                        shipment, Undefined, now)>>
     ELSE <<>>)
  \o
  (IF shipment.status = "out_for_delivery"
     THEN <<createAlert(ALERT_TYPES.DELIVERY_SOON,
                        <<shipment.nickname, "is out for delivery and should arrive today">>,
                        shipment, Undefined, now)>>
     ELSE <<>>)
  \o
  (IF shipment.status = "delivered" /\ previousStatus # "delivered"
     THEN <<createAlert(ALERT_TYPES.DELIVERED,
                        <<shipment.nickname, "has been successfully delivered">>,
                        shipment, Undefined, now)>>
     ELSE <<>>)
  \o
  (IF isShipmentStuck(shipment, now)
     THEN <<createAlert(ALERT_TYPES.EXCEPTION,
                        <<shipment.nickname, "hasn't been updated in",
                          getHoursSinceUpdate(shipment, now), "hours">>,
                        shipment, Undefined, now)>>
     ELSE <<>>)
  \o
  (IF hasPremium THEN detectAdvancedPatterns(shipment, now) ELSE <<>>)

\* ------------------------------------------------- dedup and cleanup
SameKey(a, b) ==
  /\ a.shipmentId = b.shipmentId
  /\ a.type = b.type
  /\ a.title = b.title

\* variant: the dismissed flag of the existing alert is not looked at
deduplicateAlertsIgnoringDismissed(newAlerts, existingAlerts) ==
  LET fresh(newAlert) ==
        ~(\E i \in DOMAIN existingAlerts : SameKey(existingAlerts[i], newAlert))
  IN  SelectSeq(newAlerts, fresh)

deduplicateAlerts(newAlerts, existingAlerts) ==
  LET fresh(newAlert) ==
        ~(\E i \in DOMAIN existingAlerts :
             /\ SameKey(existingAlerts[i], newAlert)
             /\ ~existingAlerts[i].dismissed)
  IN  SelectSeq(newAlerts, fresh)

\* variant: an alert of exactly 7 days is already too old
cleanupOutdatedAlertsAgeInclusive(list, shipmentList, now) ==
  LET keep(alert) ==
        LET shipment == FindShipment(shipmentList, alert.shipmentId)
        IN  IF ~HasShipment(shipmentList, alert.shipmentId) THEN FALSE
            ELSE IF alert.title = "Delivery Today" /\ shipment.status # "out_for_delivery"
              THEN FALSE
            ELSE IF alert.type = "warning" /\ shipment.status = "delivered"
              THEN FALSE
            ELSE IF now - alert.timestamp >= 7 * DAY THEN FALSE
            ELSE TRUE
  IN  SelectSeq(list, keep)

\* variant: each pass also trims the oldest entry off a list of several
cleanupOutdatedAlertsTrimming(list, shipmentList, now) ==
  LET keep(alert) ==
        LET shipment == FindShipment(shipmentList, alert.shipmentId)
        IN  IF ~HasShipment(shipmentList, alert.shipmentId) THEN FALSE
            ELSE IF alert.title = "Delivery Today" /\ shipment.status # "out_for_delivery"
              THEN FALSE
            ELSE IF alert.type = "warning" /\ shipment.status = "delivered"
              THEN FALSE
            ELSE IF now - alert.timestamp > 7 * DAY THEN FALSE
            ELSE TRUE
      kept == SelectSeq(list, keep)
  IN  IF Len(kept) > 1 THEN SubSeq(kept, 1, Len(kept) - 1) ELSE kept

cleanupOutdatedAlerts(list, shipmentList, now) ==
  LET keep(alert) ==
        LET shipment == FindShipment(shipmentList, alert.shipmentId)
        IN  IF ~HasShipment(shipmentList, alert.shipmentId) THEN FALSE
            ELSE IF alert.title = "Delivery Today" /\ shipment.status # "out_for_delivery"
              THEN FALSE
            ELSE IF alert.type = "warning" /\ shipment.status = "delivered"
              THEN FALSE
            ELSE IF now - alert.timestamp > 7 * DAY THEN FALSE
            ELSE TRUE
  IN  SelectSeq(list, keep)

\* --------------------------------------------------------- notification
\* what getUserPreferences returns when nothing usable is stored
DefaultPreferences ==
  [emailNotifications |-> TRUE, delayAlerts |-> TRUE, deliveryAlerts |-> TRUE,
   weeklyDigest |-> FALSE]

\* stored is what localStorage holds under 'userPreferences': nothing
\* ("absent"), text JSON.parse throws on ("corrupt") or a saved record
getUserPreferences(stored) ==
  IF stored.kind = "value" THEN stored.value ELSE DefaultPreferences

\* variant: a warning passes only when delayAlerts is off
PreferenceFilterInverted(list, preferences) ==
  LET pass(alert) ==
        IF alert.type = "warning" /\ preferences.delayAlerts THEN FALSE
        ELSE IF alert.type = "success" /\ ~preferences.deliveryAlerts THEN FALSE
        ELSE TRUE
  IN  SelectSeq(list, pass)

\* filteredAlerts of processAlertNotifications
PreferenceFilter(list, preferences) ==
  LET pass(alert) ==
        IF alert.type = "warning" /\ ~preferences.delayAlerts THEN FALSE
        ELSE IF alert.type = "success" /\ ~preferences.deliveryAlerts THEN FALSE
        ELSE TRUE
  IN  SelectSeq(list, pass)

\* the arguments of one sendNotificationEmail call
AlertDispatch(alert) ==
  [kind |-> "alert",
   payload |-> [trackingNumber |-> alert.trackingNumber,
                status |-> alert.metadata.status,
                message |-> alert.message,
                title |-> alert.title]]

DigestDispatch(otherAlerts) ==
  [kind |-> "digest", payload |-> [alerts |-> otherAlerts, count |-> Len(otherAlerts)]]

\* variant: the digest takes the medium alerts only when there are several
PlannedDispatchesDigestOfSeveral(filteredAlerts) ==
  LET highPriorityAlerts == SelectSeq(filteredAlerts, LAMBDA a : a.priority = "high")
      otherAlerts == SelectSeq(filteredAlerts, LAMBDA a : a.priority # "high")
  IN  [i \in DOMAIN highPriorityAlerts |-> AlertDispatch(highPriorityAlerts[i])]
      \o (IF Len(otherAlerts) > 1 THEN <<DigestDispatch(otherAlerts)>> ELSE <<>>)

\* the sendNotificationEmail calls processAlertNotifications makes when
\* none of them fails, in order
PlannedDispatches(filteredAlerts) ==
  LET highPriorityAlerts == SelectSeq(filteredAlerts, LAMBDA a : a.priority = "high")
      otherAlerts == SelectSeq(filteredAlerts, LAMBDA a : a.priority # "high")
  IN  [i \in DOMAIN highPriorityAlerts |-> AlertDispatch(highPriorityAlerts[i])]
      \o (IF Len(otherAlerts) > 0 THEN <<DigestDispatch(otherAlerts)>> ELSE <<>>)

\* variant: no try/catch around the body
NotifyOutcomeUncaught(failed) == IF failed THEN "raised" ELSE "completed"

\* how the call ends: the try/catch turns a throw of a dispatch into a log line
NotifyOutcome(failed) == IF failed THEN "caught" ELSE "completed"

\* processAlertNotifications; failAt is the number of the sendNotificationEmail
\* call that throws (0: none does). attempts are the calls made, delivered
\* the calls that went through.
processAlertNotifications(list, stored, failAt) ==
  LET preferences == getUserPreferences(stored)
      planned == PlannedDispatches(PreferenceFilter(list, preferences))
      failed == failAt \in DOMAIN planned
  IN  IF Len(list) = 0 \/ ~preferences.emailNotifications
        THEN [attempts |-> <<>>, delivered |-> <<>>, outcome |-> NotifyOutcome(FALSE)]
      ELSE IF failed
        THEN [attempts |-> SubSeq(planned, 1, failAt),
              delivered |-> SubSeq(planned, 1, failAt - 1),
              outcome |-> NotifyOutcome(TRUE)]
      ELSE [attempts |-> planned, delivered |-> planned,
            outcome |-> NotifyOutcome(FALSE)]

\* what localStorage may hold under 'userPreferences' (SettingsModal saves
\* a record there at any time)
StoredPreferences ==
  { [kind |-> "absent", value |-> DefaultPreferences],
    [kind |-> "corrupt", value |-> DefaultPreferences] }
  \cup
  { [kind |-> "value",
     value |-> [emailNotifications |-> e, delayAlerts |-> d, deliveryAlerts |-> v,
                weeklyDigest |-> FALSE]] : e, d, v \in BOOLEAN }

\* the stored preferences the lifecycle is run with
CyclePreferences ==
  { [kind |-> "absent", value |-> DefaultPreferences],
    [kind |-> "corrupt", value |-> DefaultPreferences],
    [kind |-> "value",
     value |-> [DefaultPreferences EXCEPT !.emailNotifications = FALSE]] }

\* ---------------------------------------------------------- persistence
\* What localStorage holds under one key: nothing ("absent"), text that
\* JSON.parse throws on ("invalid"), or JSON text, of which value is the
\* parsed value.  A parsed value is null, a number, or an object; of an
\* object only the list property (alerts / shipments) matters: field says
\* whether it is missing, null, 0, another number, or an array (items).
JsonField(tag, items) == [tag |-> tag, items |-> items]
NoField == JsonField("missing", <<>>)

JsonValue(tag, field) == [tag |-> tag, field |-> field]
JsonNull == JsonValue("null", NoField)
JsonNumber == JsonValue("number", NoField)
JsonObject(field) == JsonValue("object", field)

Stored(kind, value) == [kind |-> kind, value |-> value]
Absent == Stored("absent", JsonNull)
Invalid == Stored("invalid", JsonNull)

\* storage.get: the parsed value, or the default when the key is absent or
\* JSON.parse throws (caught inside)
storageGet(stored, defaultValue) ==
  IF stored.kind = "json" THEN stored.value ELSE defaultValue

\* JavaScript truthiness of a property value
Truthy(field) == field.tag \in {"number", "array"}

\* variant: the data is checked before its property is read
LoadListGuarded(data) ==
  IF data.tag = "null" THEN [raised |-> FALSE, value |-> JsonField("array", <<>>)]
  ELSE IF data.tag = "object" /\ Truthy(data.field)
    THEN [raised |-> FALSE, value |-> data.field]
  ELSE [raised |-> FALSE, value |-> JsonField("array", <<>>)]

\* data.alerts || [] (data.shipments || []): reading a property of null
\* throws a TypeError, a number has no such property
LoadList(data) ==
  IF data.tag = "null" THEN [raised |-> TRUE, value |-> NoField]
  ELSE IF data.tag = "object" /\ Truthy(data.field)
    THEN [raised |-> FALSE, value |-> data.field]
  ELSE [raised |-> FALSE, value |-> JsonField("array", <<>>)]

\* alertStorage.load and shipmentStorage.load: the default is an object
\* with an empty list
storageLoad(stored) == LoadList(storageGet(stored, JsonObject(JsonField("array", <<>>))))

\* storage.set: what the key holds afterwards and the value returned
storageSet(stored, value, writeFails) ==
  IF writeFails THEN [stored |-> stored, returned |-> FALSE, raised |-> FALSE]
  ELSE [stored |-> Stored("json", value), returned |-> TRUE, raised |-> FALSE]

\* alertStorage.save and shipmentStorage.save wrap the list in an object
storageSave(stored, list, writeFails) == storageSet(stored, JsonObject(list), writeFails)

\* variant: the alerts travel under the shipments key as well
exportAllOneList(store) ==
  LET shipmentList == storageLoad(store.shipments)
      alertList == storageLoad(store.alerts)
  IN  IF shipmentList.raised \/ alertList.raised
        THEN [raised |-> TRUE, shipments |-> NoField, alerts |-> NoField]
        ELSE [raised |-> FALSE, shipments |-> alertList.value,
              alerts |-> alertList.value]

\* dataExport.exportAll: the document, as JSON.parse reads it back
exportAll(store) ==
  LET shipmentList == storageLoad(store.shipments)
      alertList == storageLoad(store.alerts)
  IN  IF shipmentList.raised \/ alertList.raised
        THEN [raised |-> TRUE, shipments |-> NoField, alerts |-> NoField]
        ELSE [raised |-> FALSE, shipments |-> shipmentList.value,
              alerts |-> alertList.value]

\* dataImport.importAll on a document exportAll wrote
importAll(document, store) ==
  [shipments |-> IF Truthy(document.shipments)
                   THEN storageSave(store.shipments, document.shipments, FALSE).stored
                   ELSE store.shipments,
   alerts |-> IF Truthy(document.alerts)
                THEN storageSave(store.alerts, document.alerts, FALSE).stored
                ELSE store.alerts]

\* ------------------------------------------------------- shipment data
STATUS_ORDER == <<"pending", "in_transit", "out_for_delivery", "delivered">>

\* statuses.indexOf(status) + 1 (0 when the status is not in the list)
IndexOf(status) ==
  IF \E i \in DOMAIN STATUS_ORDER : STATUS_ORDER[i] = status
    THEN CHOOSE i \in DOMAIN STATUS_ORDER : STATUS_ORDER[i] = status
    ELSE 0

\* initialShipments of the shipment store, evaluated at time now
initialShipments(now) ==
  << [shipmentId |-> 1,
      trackingNumber |-> "1Z999AA1234567890",
      carrier |-> "ups",
      nickname |-> "Amazon Order",
      status |-> "in_transit",
      estimatedDelivery |-> now + 2 * DAY,
      actualDelivery |-> NoTime,
      lastUpdated |-> now - 3 * HOUR,
      historicalStatuses |->
        << [status |-> "pending", timestamp |-> now - 48 * HOUR,
            location |-> "Package received"],
           [status |-> "in_transit", timestamp |-> now - 24 * HOUR,
            location |-> "Memphis, TN"] >>],
     [shipmentId |-> 2,
      trackingNumber |-> "7123456789012",
      carrier |-> "fedex",
      nickname |-> "Birthday Gift",
      status |-> "delayed",
      estimatedDelivery |-> now + 1 * DAY,
      actualDelivery |-> NoTime,
      lastUpdated |-> now - 1 * HOUR,
      historicalStatuses |->
        << [status |-> "pending", timestamp |-> now - 72 * HOUR,
            location |-> "Package received"],
           [status |-> "in_transit", timestamp |-> now - 48 * HOUR,
            location |-> "Atlanta, GA"],
           [status |-> "delayed", timestamp |-> now - 12 * HOUR,
            location |-> "Weather delay"] >>] >>

\* generateLocation: the carrier's location table
CarrierLocations(carrier) ==
  CASE carrier = "fedex" -> <<"Memphis, TN", "Indianapolis, IN", "Oakland, CA", "Newark, NJ">>
    [] carrier = "usps" -> <<"Chicago, IL", "Los Angeles, CA", "New York, NY", "Atlanta, GA">>
    [] carrier = "dhl" -> <<"Cincinnati, OH", "Los Angeles, CA", "New York, NY", "Miami, FL">>
    [] OTHER -> <<"Atlanta, GA", "Louisville, KY", "Chicago, IL", "Los Angeles, CA">>

\* the random draws of one generateMockTrackingData call: the status index
\* (0-based), the delay flag, the days until the estimate, and which entry
\* of the carrier's location table each history entry gets
MockDraws ==
  { [statusIndex |-> 1, isDelayed |-> FALSE, estDays |-> 1, picks |-> <<1, 2>>],
    [statusIndex |-> 3, isDelayed |-> FALSE, estDays |-> 1, picks |-> <<1, 2, 3, 4>>] }

generateMockTrackingData(trackingNumber, carrier, now, draw) ==
  LET currentStatus == STATUS_ORDER[draw.statusIndex + 1]
      finalStatus == IF draw.isDelayed /\ currentStatus # "delivered"
                       THEN "delayed" ELSE currentStatus
      statusesToShow == draw.statusIndex + 1
      shown == [i \in 1..statusesToShow |->
                  [status |-> STATUS_ORDER[i],
                   timestamp |-> now - (statusesToShow - (i - 1)) * 8 * HOUR,
                   location |-> CarrierLocations(carrier)[draw.picks[i]]]]
      delayedEntry == IF draw.isDelayed
                        THEN <<[status |-> "delayed", timestamp |-> now - 2 * HOUR,
                                location |-> "In Transit"]>>
                        ELSE <<>>
  IN  [trackingNumber |-> trackingNumber,
       carrier |-> carrier,
       status |-> finalStatus,
       estimatedDelivery |-> now + draw.estDays * DAY,
       actualDelivery |-> IF finalStatus = "delivered" THEN now ELSE NoTime,
       lastUpdated |-> now,
       historicalStatuses |-> shown \o delayedEntry]

\* detectCarrier on the tracking numbers a user can enter in the model
NewTrackingNumbers == {"9400111899223197428490"}

detectCarrier(trackingNumber) ==
  CASE trackingNumber = "1Z999AA1234567890" -> "ups"
    [] trackingNumber = "7123456789012" -> "fedex"
    [] trackingNumber = "9400111899223197428490" -> "usps"
    [] OTHER -> "unknown"

\* SUBSCRIPTION_PLANS[plan].shipmentLimit; 0 stands for Infinity
shipmentLimit(planName) == IF planName = "premium" THEN 0 ELSE 3

canAddShipment(currentShipmentCount, planName) ==
  shipmentLimit(planName) = 0 \/ currentShipmentCount < shipmentLimit(planName)

\* variant: every plan counts as premium
hasPremiumFeaturesAlways(planName) == TRUE

hasPremiumFeatures(planName) == planName = "premium"

\* ---------------------------------------------------------------- state
VARIABLES
  clock,              \* wall clock, in ticks
  plan,               \* the active subscription plan
  shipments,          \* useShipmentStore: shipments state
  storedShipments,    \* shipmentStorage: persisted collection
  adding,             \* the addShipment call waiting for its fetch, if any
  refreshing,         \* the refreshAllShipments call waiting for its fetches, if any
  nextShipmentId,     \* generateShipmentId
  previousShipments,  \* useAlerts: previousShipments state
  prevSynced,         \* previousShipments is the very array in shipments
  pending,            \* the generation effect is scheduled
  alerts,             \* useAlerts: alerts state
  storedAlerts,       \* alertStorage: persisted alert set
  nextAlertId,        \* ids handed out by createAlert so far
  lastCycle,          \* what the last step did, when it was a generation effect
  lastUser,           \* what the last step did, when it was a call on the alert set
  observed,           \* the collection the last run of the generation effect saw
  restarts,           \* page loads after the first
  storeOps,           \* shipment-store updates applied so far
  userOps,            \* dismiss / markRead / clearAll calls made so far
  call,               \* a direct call of a service function: its arguments
  result              \* and what it returned

vars == <<clock, plan, shipments, storedShipments, adding, refreshing,
          nextShipmentId, previousShipments, prevSynced, pending, alerts,
          storedAlerts, nextAlertId, lastCycle, lastUser, observed, restarts,
          storeOps, userOps, call, result>>

SeqsUpTo(S, n) == UNION {[1..k -> S] : k \in 0..n}

\* no direct call is being examined
NoCall == [fn |-> "none"]
NoResult == [done |-> FALSE]

ShipmentIds == 1..MaxShipmentId
\* the ids a caller passes: those of the alerts in memory or in storage, and
\* one that no alert has
AlertIds ==
  {alerts[i].id : i \in DOMAIN alerts}
    \cup {storedAlerts[i].id : i \in DOMAIN storedAlerts} \cup {0}

\* processAlertNotifications was not called
NoNotify == [attempts |-> <<>>, delivered |-> <<>>, outcome |-> "none"]

NoCycle ==
  [ran |-> FALSE, repeat |-> FALSE, shipments |-> <<>>, previous |-> <<>>,
   before |-> <<>>, persistedBefore |-> <<>>, candidates |-> <<>>,
   admitted |-> <<>>, notified |-> <<>>, notify |-> NoNotify, effects |-> <<>>,
   handed |-> <<>>, observed |-> <<>>]

\* the last step was no call on the alert set
NoUser == [op |-> "none", alertId |-> 0, before |-> <<>>, persistedBefore |-> <<>>]

NotAdding == [active |-> FALSE, captured |-> <<>>, trackingNumber |-> Undefined]

NotRefreshing == [active |-> FALSE, captured |-> <<>>]

\* the alerts the hook returns
VisibleAlerts == SelectSeq(alerts, LAMBDA a : ~a.dismissed)

\* the state after the first render's effects: the store found no saved
\* shipments and took the sample data, the alert load effect ran against
\* the empty collection of the first render
Init ==
  /\ clock = StartTime
  /\ plan \in {"free", "premium"}
  /\ shipments = initialShipments(StartTime)
  /\ storedShipments = initialShipments(StartTime)
  /\ adding = NotAdding
  /\ refreshing = NotRefreshing
  /\ nextShipmentId = 3
  /\ previousShipments = <<>>
  /\ prevSynced = FALSE
  /\ pending = TRUE
  /\ alerts = <<>>
  /\ storedAlerts = <<>>
  /\ nextAlertId = 0
  /\ lastCycle = NoCycle
  /\ lastUser = NoUser
  /\ observed = <<>>
  /\ restarts = 0
  /\ storeOps = 0
  /\ userOps = 0
  /\ call = NoCall
  /\ result = NoResult

\* ------------------------------------------------------------- the clock
Tick ==
  /\ ~pending
  /\ clock + TickStep <= StartTime + MaxTicks * TickStep
  /\ clock' = clock + TickStep
  /\ lastCycle' = NoCycle
  /\ lastUser' = NoUser
  /\ UNCHANGED <<plan, shipments, storedShipments, adding, refreshing,
                 nextShipmentId, previousShipments, prevSynced, pending, alerts,
                 storedAlerts, nextAlertId, observed, restarts, storeOps, userOps,
                 call, result>>

\* ------------------------------------------------- alert lifecycle manager
\* newAlerts of the generation effect: the candidates of every shipment,
\* each analysed with its status in previousShipments
\* variant: the lookup never finds the previous version
PreviousStatusLost(shipment, previous) == Undefined

PreviousStatus(shipment, previous) ==
  IF HasShipment(previous, shipment.shipmentId)
    THEN FindShipment(previous, shipment.shipmentId).status
    ELSE Undefined

RECURSIVE CollectAlerts(_, _, _, _)
CollectAlerts(list, previous, now, hasPremium) ==
  IF list = <<>> THEN <<>>
  ELSE analyzeShipmentForAlerts(Head(list), PreviousStatus(Head(list), previous),
                                now, hasPremium)
       \o CollectAlerts(Tail(list), previous, now, hasPremium)

\* variant: the whole cleaned set is handed to the notifier
NotifyArgumentWholeSet(uniqueNewAlerts, cleanedAlerts) == cleanedAlerts

\* what the setAlerts updater hands to processAlertNotifications
NotifyArgument(uniqueNewAlerts, cleanedAlerts) == uniqueNewAlerts

\* updatedAlerts of the setAlerts updater: [...uniqueNewAlerts, ...prevAlerts]
MergeAlerts(uniqueNewAlerts, prevAlerts) == uniqueNewAlerts \o prevAlerts

\* the alerts the generation effect leaves in state and in storage
CycleResult(uniqueNewAlerts, prevAlerts, shipmentList, now) ==
  cleanupOutdatedAlerts(MergeAlerts(uniqueNewAlerts, prevAlerts), shipmentList, now)

\* variant: the notifier is called before the set is saved
CycleEffectsNotifyFirst(notifyResult) ==
  [k \in DOMAIN notifyResult.attempts |-> notifyResult.attempts[k].kind] \o <<"save">>

\* what an admitting run of the updater does to the outside, in order:
\* alertStorage.save, then the sendNotificationEmail calls
CycleEffects(notifyResult) ==
  <<"save">> \o [k \in DOMAIN notifyResult.attempts |-> notifyResult.attempts[k].kind]

\* the generation effect. stored is what localStorage holds under
\* 'userPreferences' at the time, failAt the sendNotificationEmail call that
\* throws (0: none)
Cycle ==
  /\ pending
  /\ lastUser' = NoUser
  /\ IF Len(shipments) = 0
       THEN /\ pending' = FALSE
            /\ lastCycle' = [NoCycle EXCEPT !.ran = TRUE,
                                            !.repeat = lastCycle.ran /\ lastCycle.shipments = shipments,
                                            !.before = alerts,
                                            !.persistedBefore = storedAlerts,
                                            !.observed = observed]
            /\ UNCHANGED <<previousShipments, prevSynced, alerts, storedAlerts, nextAlertId>>
       ELSE LET newAlerts == CollectAlerts(shipments, previousShipments, clock,
                                           hasPremiumFeatures(plan))
                uniqueNewAlerts == StampIds(deduplicateAlerts(newAlerts, alerts), nextAlertId)
                cleanedAlerts == CycleResult(uniqueNewAlerts, alerts, shipments, clock)
                admits == Len(newAlerts) > 0 /\ Len(uniqueNewAlerts) > 0
                notified == NotifyArgument(uniqueNewAlerts, cleanedAlerts)
                ran == [ran |-> TRUE,
                        repeat |-> lastCycle.ran /\ lastCycle.shipments = shipments,
                        shipments |-> shipments,
                        previous |-> previousShipments,
                        before |-> alerts,
                        persistedBefore |-> storedAlerts,
                        candidates |-> newAlerts,
                        admitted |-> uniqueNewAlerts,
                        notified |-> <<>>,
                        notify |-> NoNotify,
                        effects |-> <<>>,
                        handed |-> [i \in DOMAIN shipments |->
                                      PreviousStatus(shipments[i], previousShipments)],
                        observed |-> observed]
            IN  /\ nextAlertId + Len(uniqueNewAlerts) <= MaxAlertId
                /\ nextAlertId' = nextAlertId + Len(uniqueNewAlerts)
                /\ previousShipments' = shipments
                /\ prevSynced' = TRUE
                /\ pending' = ~prevSynced
                /\ IF admits
                     THEN \E stored \in CyclePreferences, failAt \in 0..MaxCycleFailAt :
                            LET notifyResult ==
                                  processAlertNotifications(notified, stored, failAt)
                            IN  /\ storedAlerts' = cleanedAlerts
                                /\ alerts' = IF notifyResult.outcome # "raised"
                                               THEN cleanedAlerts ELSE alerts
                                /\ lastCycle' =
                                     [ran EXCEPT !.notified = notified,
                                                 !.notify = notifyResult,
                                                 !.effects = CycleEffects(notifyResult)]
                     ELSE /\ lastCycle' = ran
                          /\ UNCHANGED <<alerts, storedAlerts>>
  /\ observed' = shipments
  /\ UNCHANGED <<clock, plan, shipments, storedShipments, adding, refreshing,
                 nextShipmentId, restarts, storeOps, userOps, call, result>>

\* what a user operation on the alert set leaves alone; the effects of one
\* render run before the next event is handled (~pending)
UserFrame(op, alertId) ==
  /\ ~pending
  /\ userOps < MaxUserOps
  /\ userOps' = userOps + 1
  /\ lastCycle' = NoCycle
  /\ lastUser' = [op |-> op, alertId |-> alertId, before |-> alerts,
                  persistedBefore |-> storedAlerts]
  /\ UNCHANGED <<clock, plan, shipments, storedShipments, adding, refreshing,
                 nextShipmentId, previousShipments, prevSynced, pending,
                 nextAlertId, observed, restarts, storeOps, call, result>>

dismissAlert(alertId) ==
  LET updatedAlerts == [i \in DOMAIN alerts |->
                          IF alerts[i].id = alertId
                            THEN [alerts[i] EXCEPT !.dismissed = TRUE, !.dismissedAt = clock]
                            ELSE alerts[i]]
  IN  /\ storedAlerts' = updatedAlerts
      /\ alerts' = SelectSeq(updatedAlerts, LAMBDA a : ~a.dismissed)
      /\ UserFrame("dismissAlert", alertId)

\* variant: only the state is emptied, storage keeps what it has
clearAllAlertsMemoryOnly ==
  /\ alerts' = <<>>
  /\ storedAlerts' = storedAlerts
  /\ UserFrame("clearAllAlerts", 0)

clearAllAlerts ==
  /\ alerts' = <<>>
  /\ storedAlerts' = <<>>
  /\ UserFrame("clearAllAlerts", 0)

\* variant: the change is made in state only
markAlertAsReadMemoryOnly(alertId) ==
  LET updatedAlerts == [i \in DOMAIN alerts |->
                          IF alerts[i].id = alertId
                            THEN [alerts[i] EXCEPT !.read = TRUE, !.readAt = clock]
                            ELSE alerts[i]]
  IN  /\ storedAlerts' = storedAlerts
      /\ alerts' = updatedAlerts
      /\ UserFrame("markAlertAsRead", alertId)

markAlertAsRead(alertId) ==
  LET updatedAlerts == [i \in DOMAIN alerts |->
                          IF alerts[i].id = alertId
                            THEN [alerts[i] EXCEPT !.read = TRUE, !.readAt = clock]
                            ELSE alerts[i]]
  IN  /\ storedAlerts' = updatedAlerts
      /\ alerts' = updatedAlerts
      /\ UserFrame("markAlertAsRead", alertId)

\* ------------------------------------------------------- shipment store
\* every setShipments call renders a new array: the generation effect is
\* scheduled and previousShipments is no longer that array.  The effects of
\* one render run before the next event is handled (~pending).
StoreFrame ==
  /\ ~pending
  /\ storeOps < MaxStoreOps
  /\ storeOps' = storeOps + 1
  /\ prevSynced' = FALSE
  /\ pending' = TRUE
  /\ lastCycle' = NoCycle
  /\ lastUser' = NoUser
  /\ UNCHANGED <<clock, plan, previousShipments, alerts, storedAlerts, nextAlertId,
                 observed, restarts, userOps, call, result>>

AdvanceStatus(shipment, now) ==
  IF shipment.status = "delivered" \/ shipment.status = "delayed" THEN shipment
  ELSE LET currentIndex == IndexOf(shipment.status) - 1
           nextIndex == IF currentIndex + 1 < 3 THEN currentIndex + 1 ELSE 3
           newStatus == STATUS_ORDER[nextIndex + 1]
       IN  [shipment EXCEPT
              !.status = newStatus,
              !.lastUpdated = now,
              !.actualDelivery = IF newStatus = "delivered" THEN now ELSE @,
              !.historicalStatuses =
                 Append(@, [status |-> newStatus, timestamp |-> now,
                            location |-> CASE nextIndex = 1 -> "Updated location 2"
                                           [] nextIndex = 2 -> "Updated location 3"
                                           [] OTHER -> "Updated location 4"])]

updateShipmentStatus(shipmentId) ==
  LET updatedShipments == [i \in DOMAIN shipments |->
                             IF shipments[i].shipmentId # shipmentId THEN shipments[i]
                             ELSE AdvanceStatus(shipments[i], clock)]
  IN  /\ shipments' = updatedShipments
      /\ storedShipments' = updatedShipments
      /\ UNCHANGED <<adding, refreshing, nextShipmentId>>
      /\ StoreFrame

deleteShipment(shipmentId) ==
  LET filteredShipments == SelectSeq(shipments, LAMBDA s : s.shipmentId # shipmentId)
  IN  /\ shipments' = filteredShipments
      /\ storedShipments' = filteredShipments
      /\ UNCHANGED <<adding, refreshing, nextShipmentId>>
      /\ StoreFrame

\* { ...s, ...updatedData, lastUpdated }
MergeTracking(s, updatedData, now) ==
  [s EXCEPT !.trackingNumber = updatedData.trackingNumber,
            !.carrier = updatedData.carrier,
            !.status = updatedData.status,
            !.estimatedDelivery = updatedData.estimatedDelivery,
            !.actualDelivery = updatedData.actualDelivery,
            !.lastUpdated = now,
            !.historicalStatuses = updatedData.historicalStatuses]

\* refreshShipment once its fetch has resolved
refreshShipment(shipmentId, draw) ==
  /\ HasShipment(shipments, shipmentId)
  /\ LET shipment == FindShipment(shipments, shipmentId)
         updatedData == generateMockTrackingData(shipment.trackingNumber,
                                                 shipment.carrier, clock, draw)
         updatedShipments == [i \in DOMAIN shipments |->
                                IF shipments[i].shipmentId = shipmentId
                                  THEN MergeTracking(shipments[i], updatedData, clock)
                                  ELSE shipments[i]]
     IN  /\ shipments' = updatedShipments
         /\ storedShipments' = updatedShipments
  /\ UNCHANGED <<adding, refreshing, nextShipmentId>>
  /\ StoreFrame

\* addShipment up to its await: the checks pass and the fetch is started
\* with the shipments array of the render that created the callback
addShipmentStart(trackingNumber) ==
  /\ ~pending
  /\ ~adding.active
  /\ nextShipmentId <= MaxShipmentId
  /\ canAddShipment(Len(shipments), plan)
  /\ ~(\E i \in DOMAIN shipments : shipments[i].trackingNumber = trackingNumber)
  /\ adding' = [active |-> TRUE, captured |-> shipments, trackingNumber |-> trackingNumber]
  /\ lastCycle' = NoCycle
  /\ lastUser' = NoUser
  /\ UNCHANGED <<clock, plan, shipments, storedShipments, refreshing,
                 nextShipmentId, previousShipments, prevSynced, pending, alerts,
                 storedAlerts, nextAlertId, observed, restarts, storeOps, userOps,
                 call, result>>

\* addShipment after its await
addShipmentFinish(draw) ==
  /\ adding.active
  /\ LET carrier == detectCarrier(adding.trackingNumber)
         shipmentData == generateMockTrackingData(adding.trackingNumber, carrier, clock, draw)
         newShipment == [shipmentId |-> nextShipmentId,
                         trackingNumber |-> shipmentData.trackingNumber,
                         carrier |-> shipmentData.carrier,
                         nickname |-> "USPS Package",
                         status |-> shipmentData.status,
                         estimatedDelivery |-> shipmentData.estimatedDelivery,
                         actualDelivery |-> shipmentData.actualDelivery,
                         lastUpdated |-> shipmentData.lastUpdated,
                         historicalStatuses |-> shipmentData.historicalStatuses]
         updatedShipments == <<newShipment>> \o adding.captured
     IN  /\ shipments' = updatedShipments
         /\ storedShipments' = updatedShipments
  /\ nextShipmentId' = nextShipmentId + 1
  /\ adding' = NotAdding
  /\ UNCHANGED refreshing
  /\ StoreFrame

\* what one fetchTrackingData of refreshAllShipments comes to: it throws, or
\* it returns the mock data of a draw
RefreshDraws ==
  {[failed |-> FALSE, draw |-> d] : d \in MockDraws}
    \cup {[failed |-> TRUE, draw |-> CHOOSE d \in MockDraws : TRUE]}

\* refreshAllShipments up to its await: the fetches are started for the
\* shipments array of the render that created the callback
refreshAllShipmentsStart ==
  /\ ~pending
  /\ ~refreshing.active
  /\ refreshing' = [active |-> TRUE, captured |-> shipments]
  /\ lastCycle' = NoCycle
  /\ lastUser' = NoUser
  /\ UNCHANGED <<clock, plan, shipments, storedShipments, adding,
                 nextShipmentId, previousShipments, prevSynced, pending, alerts,
                 storedAlerts, nextAlertId, observed, restarts, storeOps, userOps,
                 call, result>>

\* refreshAllShipments after Promise.all; draws[k] is the outcome of the
\* fetch for the k-th shipment that was not delivered
refreshAllShipmentsFinish(draws) ==
  /\ refreshing.active
  /\ LET activeShipments == SelectSeq(refreshing.captured,
                                      LAMBDA s : s.status # "delivered")
         deliveredShipments == SelectSeq(refreshing.captured,
                                         LAMBDA s : s.status = "delivered")
         refreshedShipments ==
           [k \in DOMAIN activeShipments |->
              IF draws[k].failed THEN activeShipments[k]
              ELSE MergeTracking(activeShipments[k],
                                 generateMockTrackingData(activeShipments[k].trackingNumber,
                                                          activeShipments[k].carrier,
                                                          clock, draws[k].draw),
                                 clock)]
         allShipments == refreshedShipments \o deliveredShipments
     IN  /\ DOMAIN draws = DOMAIN activeShipments
         /\ shipments' = allShipments
         /\ storedShipments' = allShipments
  /\ refreshing' = NotRefreshing
  /\ UNCHANGED <<adding, nextShipmentId>>
  /\ StoreFrame

\* a page load: the state of every hook starts over, localStorage stays.
\* The store's initialize effect takes the saved shipments (the sample data
\* when there are none); the alert load effect cleans the saved alerts
\* against the shipments of the first render, the empty array; a call that
\* was waiting for its fetch is gone with the page.
Restart ==
  /\ ~pending
  /\ restarts < MaxRestarts
  /\ restarts' = restarts + 1
  /\ LET savedShipments == storedShipments
     IN  IF Len(savedShipments) > 0
           THEN /\ shipments' = savedShipments
                /\ UNCHANGED storedShipments
           ELSE /\ shipments' = initialShipments(clock)
                /\ storedShipments' = initialShipments(clock)
  /\ LET savedAlerts == storedAlerts
         cleanedAlerts == cleanupOutdatedAlerts(savedAlerts, <<>>, clock)
     IN  /\ alerts' = cleanedAlerts
         /\ storedAlerts' = IF Len(cleanedAlerts) # Len(savedAlerts)
                              THEN cleanedAlerts ELSE storedAlerts
  /\ adding' = NotAdding
  /\ refreshing' = NotRefreshing
  /\ previousShipments' = <<>>
  /\ prevSynced' = FALSE
  /\ pending' = TRUE
  /\ observed' = <<>>
  /\ lastCycle' = NoCycle
  /\ lastUser' = [op |-> "restart", alertId |-> 0, before |-> alerts,
                  persistedBefore |-> storedAlerts]
  /\ UNCHANGED <<clock, plan, nextShipmentId, nextAlertId, storeOps, userOps,
                 call, result>>

Next ==
  \/ Tick
  \/ Cycle
  \/ \E alertId \in AlertIds : dismissAlert(alertId)
  \/ clearAllAlerts
  \/ \E alertId \in AlertIds : markAlertAsRead(alertId)
  \/ \E shipmentId \in ShipmentIds : updateShipmentStatus(shipmentId)
  \/ \E shipmentId \in ShipmentIds : deleteShipment(shipmentId)
  \/ \E shipmentId \in ShipmentIds, draw \in MockDraws : refreshShipment(shipmentId, draw)
  \/ \E trackingNumber \in NewTrackingNumbers : addShipmentStart(trackingNumber)
  \/ \E draw \in MockDraws : addShipmentFinish(draw)

Spec == Init /\ [][Next]_vars

\* ------------------------------------------------- sessions and bulk refresh
\* A later session of a user on the free plan: the store found the saved
\* collection of an earlier one, in which the user had deleted the first of
\* the two sample shipments
SavedShipments ==
  {SelectSeq(initialShipments(StartTime), LAMBDA s : s.shipmentId = shipmentId) :
     shipmentId \in {2}}

InitSession ==
  /\ clock = StartTime
  /\ plan = "free"
  /\ shipments \in SavedShipments
  /\ storedShipments = shipments
  /\ adding = NotAdding
  /\ refreshing = NotRefreshing
  /\ nextShipmentId = 3
  /\ previousShipments = <<>>
  /\ prevSynced = FALSE
  /\ pending = TRUE
  /\ alerts = <<>>
  /\ storedAlerts = <<>>
  /\ nextAlertId = 0
  /\ lastCycle = NoCycle
  /\ lastUser = NoUser
  /\ observed = <<>>
  /\ restarts = 0
  /\ storeOps = 0
  /\ userOps = 0
  /\ call = NoCall
  /\ result = NoResult

NextSession ==
  \/ Tick
  \/ Cycle
  \/ \E alertId \in AlertIds : dismissAlert(alertId)
  \/ clearAllAlerts
  \/ \E alertId \in AlertIds : markAlertAsRead(alertId)
  \/ \E shipmentId \in ShipmentIds : updateShipmentStatus(shipmentId)
  \/ \E shipmentId \in ShipmentIds : deleteShipment(shipmentId)
  \/ \E shipmentId \in ShipmentIds, draw \in MockDraws : refreshShipment(shipmentId, draw)
  \/ \E trackingNumber \in NewTrackingNumbers : addShipmentStart(trackingNumber)
  \/ \E draw \in MockDraws : addShipmentFinish(draw)
  \/ refreshAllShipmentsStart
  \/ \E draws \in SeqsUpTo(RefreshDraws, MaxShipmentId) : refreshAllShipmentsFinish(draws)
  \/ Restart

SpecSession == InitSession /\ [][NextSession]_vars

\* =================================================================
\* Direct calls of the service functions, on inputs drawn from bounded sets
\* =================================================================
MaxCandidates == 2
MaxExisting == 2
MaxCleanupAlerts == 2

\* the lifecycle state stays where the first render left it
Idle ==
  /\ clock = StartTime
  /\ plan = "free"
  /\ shipments = initialShipments(StartTime)
  /\ storedShipments = initialShipments(StartTime)
  /\ adding = NotAdding
  /\ refreshing = NotRefreshing
  /\ nextShipmentId = 3
  /\ previousShipments = <<>>
  /\ prevSynced = FALSE
  /\ pending = TRUE
  /\ alerts = <<>>
  /\ storedAlerts = <<>>
  /\ nextAlertId = 0
  /\ lastCycle = NoCycle
  /\ lastUser = NoUser
  /\ observed = <<>>
  /\ restarts = 0
  /\ storeOps = 0
  /\ userOps = 0

IdleFrame ==
  UNCHANGED <<clock, plan, shipments, storedShipments, adding, refreshing,
              nextShipmentId, previousShipments, prevSynced, pending, alerts,
              storedAlerts, nextAlertId, lastCycle, lastUser, observed, restarts,
              storeOps, userOps, call>>

SampleShipment(shipmentId, status) ==
  [shipmentId |-> shipmentId, trackingNumber |-> "1Z999AA1234567890",
   carrier |-> "ups", nickname |-> "Amazon Order", status |-> status,
   estimatedDelivery |-> NoTime, actualDelivery |-> NoTime,
   lastUpdated |-> StartTime, historicalStatuses |-> <<>>]

SampleAlert(alertType, shipmentId, timestamp, dismissed) ==
  [createAlert(alertType, <<"Amazon Order">>, SampleShipment(shipmentId, "in_transit"),
               Undefined, timestamp)
     EXCEPT !.dismissed = dismissed,
            !.dismissedAt = IF dismissed THEN timestamp ELSE NoTime]

\* ---- ingest: deduplicateAlerts and the merge of the setAlerts updater
IngestKeys ==
  { <<1, ALERT_TYPES.DELAY_DETECTED>>, <<1, ALERT_TYPES.WEATHER_DELAY>>,
    <<1, ALERT_TYPES.EXCEPTION>>, <<2, ALERT_TYPES.DELAY_DETECTED>> }

IngestCandidates == { SampleAlert(k[2], k[1], StartTime, FALSE) : k \in IngestKeys }

IngestExisting ==
  { SampleAlert(k[2], k[1], StartTime - DAY, d) : k \in IngestKeys, d \in BOOLEAN }

InitIngest ==
  /\ Idle
  /\ call \in { [fn |-> "ingest",
                 candidates |-> StampIds(c, MaxExisting),
                 existing |-> StampIds(e, 0)] :
                c \in SeqsUpTo(IngestCandidates, MaxCandidates),
                e \in SeqsUpTo(IngestExisting, MaxExisting) }
  /\ result = NoResult

IngestCall ==
  /\ call.fn = "ingest"
  /\ ~result.done
  /\ result' = [done |-> TRUE,
                admitted |-> deduplicateAlerts(call.candidates, call.existing),
                merged |-> MergeAlerts(deduplicateAlerts(call.candidates, call.existing),
                                       call.existing)]
  /\ IdleFrame

SpecIngest == InitIngest /\ [][IngestCall]_vars

\* ---- cleanup: cleanupOutdatedAlerts, once, twice and alert by alert
CleanupNow == StartTime + 8 * DAY

CleanupAlerts ==
  { SampleAlert(t, id, ts, FALSE) :
      t \in {ALERT_TYPES.DELIVERY_SOON, ALERT_TYPES.DELAY_DETECTED, ALERT_TYPES.DELIVERED},
      id \in 1..3,
      ts \in {CleanupNow - 7 * DAY - 1, CleanupNow - 7 * DAY} }

CleanupStatuses == {"in_transit", "out_for_delivery", "delivered"}

CleanupShipments ==
  {<<>>}
  \cup { <<SampleShipment(1, s)>> : s \in CleanupStatuses }
  \cup { <<SampleShipment(1, s), SampleShipment(2, t)>> :
           s \in CleanupStatuses, t \in CleanupStatuses }

InitCleanup ==
  /\ Idle
  /\ call \in { [fn |-> "cleanup", alerts |-> StampIds(a, 0), shipments |-> sh,
                 now |-> CleanupNow] :
                a \in SeqsUpTo(CleanupAlerts, MaxCleanupAlerts),
                sh \in CleanupShipments }
  /\ result = NoResult

CleanupCall ==
  /\ call.fn = "cleanup"
  /\ ~result.done
  /\ LET once == cleanupOutdatedAlerts(call.alerts, call.shipments, call.now)
     IN  result' = [done |-> TRUE,
                    once |-> once,
                    twice |-> cleanupOutdatedAlerts(once, call.shipments, call.now),
                    reversed |-> cleanupOutdatedAlerts(
                                   [i \in DOMAIN call.alerts |->
                                      call.alerts[Len(call.alerts) + 1 - i]],
                                   call.shipments, call.now),
                    singles |-> [i \in DOMAIN call.alerts |->
                                   cleanupOutdatedAlerts(<<call.alerts[i]>>,
                                                         call.shipments, call.now)]]
  /\ IdleFrame

SpecCleanup == InitCleanup /\ [][CleanupCall]_vars

\* =================================================================
\* Claims
\* =================================================================

\* C1: in every reachable state the alert set holds at most one
\* non-dismissed alert for any (shipmentId, type, title) triple, whatever
\* the premium gate.
C1_DedupInvariant ==
  \A i, j \in DOMAIN alerts :
     (i # j /\ ~alerts[i].dismissed /\ ~alerts[j].dismissed)
        => ~SameKey(alerts[i], alerts[j])

\* the same with the premium gate off (not a claim: it locates the failure)
DedupInvariantFreePlan == plan = "free" => C1_DedupInvariant

\* ---- notify: processAlertNotifications
MaxNotifyAlerts == 2

NotifyAlert(alertType, status) ==
  createAlert(alertType, <<"Amazon Order", alertType.title, status>>,
              SampleShipment(1, status), Undefined, StartTime)

NotifyAlerts ==
  { NotifyAlert(ALERT_TYPES.DELAY_DETECTED, "in_transit"),
    NotifyAlert(ALERT_TYPES.DELAY_DETECTED, "pending"),
    NotifyAlert(ALERT_TYPES.WEATHER_DELAY, "delayed"),
    NotifyAlert(ALERT_TYPES.DELIVERED, "delivered"),
    NotifyAlert(ALERT_TYPES.DELIVERY_SOON, "out_for_delivery"),
    NotifyAlert(ALERT_TYPES.EXCEPTION, "in_transit") }

InitNotify ==
  /\ Idle
  /\ \E list \in SeqsUpTo(NotifyAlerts, MaxNotifyAlerts),
        stored \in StoredPreferences, failAt \in 0..MaxFailAt :
        call = [fn |-> "notify", alerts |-> StampIds(list, 0), stored |-> stored,
                failAt |-> failAt]
  /\ result = NoResult

NotifyCall ==
  /\ call.fn = "notify" /\ ~result.done
  /\ result' = [done |-> TRUE,
                notify |-> processAlertNotifications(call.alerts, call.stored,
                                                     call.failAt)]
  /\ IdleFrame

SpecNotify == InitNotify /\ [][NotifyCall]_vars

\* ---- derive: analyzeShipmentForAlerts on one shipment
DeriveNow == StartTime + 8 * DAY

DeriveStatuses == {"pending", "in_transit", "out_for_delivery", "delivered", "delayed"}

\* estimatedDelivery: not set, ahead, now, and behind by a tick, a day, a
\* day and a tick
DeriveEstimates ==
  {NoTime, DeriveNow + 1, DeriveNow, DeriveNow - 1, DeriveNow - DAY, DeriveNow - DAY - 1}

\* lastUpdated: 3, 48.5, 49, 72.5 and 73 hours back
DeriveUpdates ==
  {DeriveNow - 3 * HOUR, DeriveNow - 48 * HOUR - 1, DeriveNow - 49 * HOUR,
   DeriveNow - 72 * HOUR - 1, DeriveNow - 73 * HOUR}

DeriveCarriers == {"ups", "usps", "fedex"}

DeriveRoutes ==
  { <<>>,
    <<"Weather delay">>,
    <<"Atlanta, GA", "CUSTOMS hold">>,
    <<"Bad Address", "Atlanta, GA">>,
    <<"Memphis, TN", "Memphis, TN", "Memphis, TN">>,
    <<"Memphis, TN", "Atlanta, GA", "Memphis, TN">>,
    <<"Memphis, TN", "Memphis, TN", "Memphis, TN", "Atlanta, GA">> }

\* how long ago the first entry of the history was written
DeriveFirstAges == {6 * DAY - 1, 6 * DAY}

DeriveHistory(route, firstAge) ==
  [i \in DOMAIN route |->
     [status |-> "in_transit", timestamp |-> DeriveNow - firstAge + (i - 1),
      location |-> route[i]]]

DeriveShipment(status, estimatedDelivery, lastUpdated, carrier, route, firstAge) ==
  [SampleShipment(1, status) EXCEPT !.estimatedDelivery = estimatedDelivery,
                                    !.lastUpdated = lastUpdated,
                                    !.carrier = carrier,
                                    !.historicalStatuses = DeriveHistory(route, firstAge)]

InitDerive ==
  /\ Idle
  /\ \E status \in DeriveStatuses, estimatedDelivery \in DeriveEstimates,
        lastUpdated \in DeriveUpdates, carrier \in DeriveCarriers,
        route \in DeriveRoutes, firstAge \in DeriveFirstAges,
        previousStatus \in {Undefined, "delivered"}, planName \in {"free", "premium"} :
        call = [fn |-> "derive",
                shipment |-> DeriveShipment(status, estimatedDelivery, lastUpdated,
                                            carrier, route, firstAge),
                previousStatus |-> previousStatus,
                now |-> DeriveNow,
                plan |-> planName]
  /\ result = NoResult

DeriveCall ==
  /\ call.fn = "derive" /\ ~result.done
  /\ result' = [done |-> TRUE,
                alerts |-> analyzeShipmentForAlerts(call.shipment, call.previousStatus,
                                                    call.now, hasPremiumFeatures(call.plan))]
  /\ IdleFrame

SpecDerive == InitDerive /\ [][DeriveCall]_vars

\* ---- admit: the generation effect on a collection loaded from storage,
\* where a record may have lost its shipmentId
MaxLoaded == 2

\* shipment.shipmentId of a record that has none (undefined in the source)
NoShipmentId == 0

LoadedShipments ==
  { SampleShipment(shipmentId, status) :
      shipmentId \in {1, NoShipmentId}, status \in {"delayed", "out_for_delivery"} }

AdmitExisting ==
  { <<>>,
    <<SampleAlert(ALERT_TYPES.DELAY_DETECTED, 1, StartTime, FALSE)>>,
    <<SampleAlert(ALERT_TYPES.DELIVERY_SOON, 1, StartTime, FALSE)>>,
    <<SampleAlert(ALERT_TYPES.DELAY_DETECTED, 1, StartTime, TRUE)>>,
    <<SampleAlert(ALERT_TYPES.DELAY_DETECTED, 1, StartTime, FALSE),
      SampleAlert(ALERT_TYPES.DELIVERY_SOON, 1, StartTime, FALSE)>> }

InitAdmit ==
  /\ Idle
  /\ \E loaded \in SeqsUpTo(LoadedShipments, MaxLoaded), existing \in AdmitExisting :
        call = [fn |-> "admit", shipments |-> loaded,
                existing |-> StampIds(existing, 0), now |-> StartTime]
  /\ result = NoResult

AdmitCall ==
  /\ call.fn = "admit" /\ ~result.done
  /\ LET newAlerts == CollectAlerts(call.shipments, <<>>, call.now, FALSE)
         uniqueNewAlerts == StampIds(deduplicateAlerts(newAlerts, call.existing),
                                     Len(call.existing))
     IN  result' = [done |-> TRUE,
                    candidates |-> newAlerts,
                    admitted |-> uniqueNewAlerts,
                    cleaned |-> IF Len(uniqueNewAlerts) = 0 THEN call.existing
                                ELSE CycleResult(uniqueNewAlerts, call.existing,
                                                 call.shipments, call.now)]
  /\ IdleFrame

SpecAdmit == InitAdmit /\ [][AdmitCall]_vars

\* ---- load, save, export and import on any stored content
MaxStoredItems == 1

StoredItems ==
  { SampleAlert(ALERT_TYPES.DELAY_DETECTED, 1, StartTime, FALSE),
    SampleAlert(ALERT_TYPES.DELAY_DETECTED, 1, StartTime, TRUE),
    SampleAlert(ALERT_TYPES.DELIVERED, 2, StartTime + DAY, FALSE) }

StoredFields ==
  { NoField, JsonField("null", <<>>), JsonField("zero", <<>>),
    JsonField("number", <<>>) }
  \cup { JsonField("array", items) : items \in SeqsUpTo(StoredItems, MaxStoredItems) }

StoredContents ==
  { Absent, Invalid, Stored("json", JsonNull), Stored("json", JsonNumber) }
  \cup { Stored("json", JsonObject(field)) : field \in StoredFields }

InitStorage ==
  /\ Idle
  /\ \E storedAlertsKey \in StoredContents, storedShipmentsKey \in StoredContents,
        writeFails \in BOOLEAN :
        call = [fn |-> "storage",
                store |-> [alerts |-> storedAlertsKey, shipments |-> storedShipmentsKey],
                writeFails |-> writeFails]
  /\ result = NoResult

StorageCall ==
  /\ call.fn = "storage" /\ ~result.done
  /\ LET document == exportAll(call.store)
     IN  result' = [done |-> TRUE,
                    loadAlerts |-> storageLoad(call.store.alerts),
                    loadShipments |-> storageLoad(call.store.shipments),
                    save |-> storageSave(call.store.alerts, JsonField("array", <<>>),
                                         call.writeFails),
                    document |-> document,
                    imported |-> IF document.raised THEN call.store
                                 ELSE importAll(document, call.store)]
  /\ IdleFrame

SpecStorage == InitStorage /\ [][StorageCall]_vars

\* ---- helpers of the claims
Unstamped(list) == [i \in DOMAIN list |-> [list[i] EXCEPT !.id = 0]]

Ids(list) == {list[i].id : i \in DOMAIN list}

\* an existing alert that blocks the admission of candidate c
Blocks(e, c) ==
  /\ e.dismissed = FALSE
  /\ e.shipmentId = c.shipmentId
  /\ e.type = c.type
  /\ e.title = c.title

Admissible(candidates, existing) ==
  {i \in DOMAIN candidates :
     ~(\E j \in DOMAIN existing : Blocks(existing[j], candidates[i]))}

\* the k-th smallest element of a set of indices
NthOf(S, k) == CHOOSE i \in S : Cardinality({j \in S : j <= i}) = k

\* C2: a candidate is admitted iff no existing alert with dismissed=false
\* has its shipmentId, type and title; the admitted candidates keep the
\* candidate order and the merged set is the admitted candidates followed
\* by the existing set unchanged.
C2_IngestAdmission ==
  (call.fn = "ingest" /\ result.done) =>
     LET admissible == Admissible(call.candidates, call.existing)
     IN  /\ Len(result.admitted) = Cardinality(admissible)
         /\ \A k \in DOMAIN result.admitted :
               result.admitted[k] = call.candidates[NthOf(admissible, k)]
         /\ Len(result.merged) = Len(result.admitted) + Len(call.existing)
         /\ \A k \in DOMAIN result.admitted : result.merged[k] = result.admitted[k]
         /\ \A k \in DOMAIN call.existing :
               result.merged[Len(result.admitted) + k] = call.existing[k]

\* one candidate is rejected, another is admitted although a dismissed
\* alert has its key
C2_Witness ==
  /\ call.fn = "ingest" /\ result.done
  /\ Len(result.admitted) < Len(call.candidates)
  /\ \E k \in DOMAIN result.admitted, j \in DOMAIN call.existing :
        /\ call.existing[j].dismissed
        /\ SameKey(call.existing[j], result.admitted[k])

\* C3: a cycle that runs directly after a cycle on the same shipment
\* collection (same clock, same plan) admits no alert, and afterwards every
\* out_for_delivery shipment has exactly one 'Delivery Today' alert.
C3_SecondRunAdmitsNothing ==
  (lastCycle.ran /\ lastCycle.repeat) =>
     /\ lastCycle.admitted = <<>>
     /\ \A i \in DOMAIN shipments :
           shipments[i].status = "out_for_delivery" =>
              Cardinality({j \in DOMAIN alerts :
                             /\ alerts[j].shipmentId = shipments[i].shipmentId
                             /\ alerts[j].title = "Delivery Today"}) = 1

\* the same on the free plan only (not a claim: it locates the failure)
SecondRunAdmitsNothingFreePlan == plan = "free" => C3_SecondRunAdmitsNothing

\* the 'Package Delivered' candidates of the last cycle for a shipment
DeliveredCandidates(shipmentId) ==
  {k \in DOMAIN lastCycle.candidates :
     /\ lastCycle.candidates[k].shipmentId = shipmentId
     /\ lastCycle.candidates[k].title = "Package Delivered"}

\* C4: a shipment that was in_transit in the previously observed collection
\* and is delivered in the new one gets exactly one 'Package Delivered'
\* candidate (success, medium) in the cycle; one that was delivered already
\* gets none.
C4_DeliveredEdge ==
  lastCycle.ran =>
    \A i \in DOMAIN lastCycle.shipments, j \in DOMAIN lastCycle.previous :
       LET new == lastCycle.shipments[i]
           old == lastCycle.previous[j]
       IN  (new.shipmentId = old.shipmentId /\ new.status = "delivered") =>
             /\ old.status = "in_transit" =>
                  /\ Cardinality(DeliveredCandidates(new.shipmentId)) = 1
                  /\ \A k \in DeliveredCandidates(new.shipmentId) :
                        /\ lastCycle.candidates[k].type = "success"
                        /\ lastCycle.candidates[k].priority = "medium"
             /\ old.status = "delivered" =>
                  DeliveredCandidates(new.shipmentId) = {}

\* a cycle sees a shipment go from in_transit to delivered
C4_Witness ==
  /\ lastCycle.ran
  /\ \E i \in DOMAIN lastCycle.shipments, j \in DOMAIN lastCycle.previous :
        /\ lastCycle.shipments[i].shipmentId = lastCycle.previous[j].shipmentId
        /\ lastCycle.shipments[i].status = "delivered"
        /\ lastCycle.previous[j].status = "in_transit"
        /\ DeliveredCandidates(lastCycle.shipments[i].shipmentId) # {}

\* C5: after every cycle, admitting or not, on an empty collection or not,
\* the alert set in memory and in storage equals its own cleanup against
\* the current collection.
C5_CleanupEveryCycle ==
  lastCycle.ran =>
    /\ cleanupOutdatedAlerts(alerts, shipments, clock) = alerts
    /\ cleanupOutdatedAlerts(storedAlerts, shipments, clock) = storedAlerts

\* rules (a) to (d) of cleanup, as the specification words them
RemovalRule(alert, shipmentList, now) ==
  \/ ~(\E i \in DOMAIN shipmentList : shipmentList[i].shipmentId = alert.shipmentId)
  \/ /\ alert.title = "Delivery Today"
     /\ \E i \in DOMAIN shipmentList :
           /\ shipmentList[i].shipmentId = alert.shipmentId
           /\ shipmentList[i].status # "out_for_delivery"
  \/ /\ alert.type = "warning"
     /\ \E i \in DOMAIN shipmentList :
           /\ shipmentList[i].shipmentId = alert.shipmentId
           /\ shipmentList[i].status = "delivered"
  \/ now - alert.timestamp > 7 * DAY

Survivors(list, shipmentList, now) ==
  {i \in DOMAIN list : ~RemovalRule(list[i], shipmentList, now)}

\* C6: cleanup keeps an alert iff none of the rules (a) to (d) holds for
\* it; the kept alerts are unmodified and in their original order.
C6_CleanupCharacterisation ==
  (call.fn = "cleanup" /\ result.done) =>
     LET survivors == Survivors(call.alerts, call.shipments, call.now)
     IN  /\ Len(result.once) = Cardinality(survivors)
         /\ \A k \in DOMAIN result.once :
               result.once[k] = call.alerts[NthOf(survivors, k)]

\* one alert goes for its age alone, the other one stays
C6_Witness ==
  /\ call.fn = "cleanup" /\ result.done
  /\ Len(call.alerts) = 2 /\ Len(result.once) = 1
  /\ \E i \in DOMAIN call.alerts :
        /\ call.now - call.alerts[i].timestamp > 7 * DAY
        /\ call.alerts[i].type = "success"
        /\ \E s \in DOMAIN call.shipments :
              call.shipments[s].shipmentId = call.alerts[i].shipmentId
        /\ \A k \in DOMAIN result.once : result.once[k] # call.alerts[i]

RECURSIVE Flatten(_)
Flatten(lists) == IF lists = <<>> THEN <<>> ELSE Head(lists) \o Flatten(Tail(lists))

Reverse(list) == [i \in DOMAIN list |-> list[Len(list) + 1 - i]]

\* C7: cleanup applied twice gives what it gives once, and whether an alert
\* is kept depends neither on the other alerts nor on their order.
C7_CleanupIdempotent ==
  (call.fn = "cleanup" /\ result.done) =>
     /\ result.twice = result.once
     /\ result.once = Flatten(result.singles)
     /\ result.reversed = Reverse(result.once)

\* a set of two alerts of which cleanup removes one
C7_Witness ==
  /\ call.fn = "cleanup" /\ result.done
  /\ Len(call.alerts) = 2
  /\ Len(result.once) = 1
  /\ Len(result.twice) = 1

\* the step is a clearAll
ClearAllStep == alerts' = <<>> /\ storedAlerts' = <<>> /\ userOps' = userOps + 1

\* C8: a dismissed alert never shows in the visible list again, and it
\* stays in the persisted set, as it is, through every cycle, markRead and
\* dismiss, until cleanup removes it under one of its rules.
C8_DismissRetention ==
  [][\A i \in DOMAIN storedAlerts :
       storedAlerts[i].dismissed =>
          /\ ~(\E j \in DOMAIN alerts' :
                 alerts'[j].id = storedAlerts[i].id /\ ~alerts'[j].dismissed)
          /\ \/ \E j \in DOMAIN storedAlerts' : storedAlerts'[j] = storedAlerts[i]
             \/ RemovalRule(storedAlerts[i], shipments', clock')
             \/ ClearAllStep]_vars

\* C9: while a dismissed alert is in the persisted set and no cleanup rule
\* applies to it, a cycle admits no alert with its key.
C9_DismissSuppresses ==
  lastCycle.ran =>
    \A k \in DOMAIN lastCycle.admitted, i \in DOMAIN lastCycle.persistedBefore :
       ~(/\ lastCycle.persistedBefore[i].dismissed
         /\ SameKey(lastCycle.persistedBefore[i], lastCycle.admitted[k])
         /\ ~RemovalRule(lastCycle.persistedBefore[i], lastCycle.shipments, clock))

\* C10: the alerts handed to the notifier in a cycle are exactly the
\* candidates the cycle admitted, and none of them was in the set before.
C10_NotifyOnlyAdmitted ==
  lastCycle.ran =>
    LET admissible == Admissible(lastCycle.candidates, lastCycle.before)
    IN  /\ Len(lastCycle.notified) = Cardinality(admissible)
        /\ \A k \in DOMAIN lastCycle.notified :
              Unstamped(lastCycle.notified)[k] = lastCycle.candidates[NthOf(admissible, k)]
        /\ Ids(lastCycle.notified) \cap Ids(lastCycle.before) = {}
        /\ Ids(lastCycle.notified) \cap Ids(lastCycle.persistedBefore) = {}

\* a cycle admits one candidate, rejects another and finds alerts in place
C10_Witness ==
  /\ lastCycle.ran
  /\ lastCycle.notified # <<>>
  /\ lastCycle.before # <<>>
  /\ Len(lastCycle.notified) < Len(lastCycle.candidates)

\* ---- the notifier
\* the preferences in force for the examined notify call
PreferencesInForce ==
  IF call.stored.kind = "value" THEN call.stored.value
  ELSE [emailNotifications |-> TRUE, delayAlerts |-> TRUE, deliveryAlerts |-> TRUE,
        weeklyDigest |-> FALSE]

Eligible(alert, preferences) ==
  /\ ~(alert.type = "warning" /\ ~preferences.delayAlerts)
  /\ ~(alert.type = "success" /\ ~preferences.deliveryAlerts)

\* the alert is in one of the dispatches
Dispatched(alert, dispatches) ==
  \E k \in DOMAIN dispatches :
     \/ /\ dispatches[k].kind = "alert"
        /\ dispatches[k].payload.trackingNumber = alert.trackingNumber
        /\ dispatches[k].payload.status = alert.metadata.status
        /\ dispatches[k].payload.message = alert.message
        /\ dispatches[k].payload.title = alert.title
     \/ /\ dispatches[k].kind = "digest"
        /\ \E j \in DOMAIN dispatches[k].payload.alerts :
              dispatches[k].payload.alerts[j] = alert

\* C12: with emailNotifications disabled notify makes no dispatch; otherwise
\* an alert is dispatched iff it is not a warning with delayAlerts disabled
\* and not a success with deliveryAlerts disabled (info and error always are).
C12_PreferenceFilter ==
  (call.fn = "notify" /\ result.done /\ result.notify.outcome = "completed") =>
     LET preferences == PreferencesInForce
         dispatches == result.notify.attempts
     IN  IF ~preferences.emailNotifications
           THEN dispatches = <<>>
           ELSE \A i \in DOMAIN call.alerts :
                   /\ Dispatched(call.alerts[i], dispatches)
                        <=> Eligible(call.alerts[i], preferences)
                   /\ call.alerts[i].type \in {"info", "error"}
                        => Dispatched(call.alerts[i], dispatches)

\* delayAlerts is off: a warning is held back, another alert goes out
C12_Witness ==
  /\ call.fn = "notify" /\ result.done /\ result.notify.outcome = "completed"
  /\ PreferencesInForce.emailNotifications /\ ~PreferencesInForce.delayAlerts
  /\ \E i, j \in DOMAIN call.alerts :
        /\ call.alerts[i].type = "warning"
        /\ ~Dispatched(call.alerts[i], result.notify.attempts)
        /\ call.alerts[j].type = "error"
        /\ Dispatched(call.alerts[j], result.notify.attempts)

EligibleHigh(list, preferences) ==
  {i \in DOMAIN list : Eligible(list[i], preferences) /\ list[i].priority = "high"}

EligibleOther(list, preferences) ==
  {i \in DOMAIN list : Eligible(list[i], preferences) /\ list[i].priority \in {"medium", "low"}}

OfKind(dispatches, kind) == {k \in DOMAIN dispatches : dispatches[k].kind = kind}

\* C13: a notify call with email enabled and no failing dispatch makes one
\* 'alert' dispatch per eligible high-priority alert, with its
\* trackingNumber, status, message and title, and one 'digest' dispatch with
\* all eligible medium or low alerts and their count when there is one, none
\* otherwise.
C13_FanOut ==
  (/\ call.fn = "notify" /\ result.done
   /\ result.notify.outcome = "completed"
   /\ PreferencesInForce.emailNotifications) =>
     LET dispatches == result.notify.attempts
         high == EligibleHigh(call.alerts, PreferencesInForce)
         other == EligibleOther(call.alerts, PreferencesInForce)
         single == OfKind(dispatches, "alert")
         digest == OfKind(dispatches, "digest")
     IN  /\ Cardinality(single) = Cardinality(high)
         /\ \A n \in 1..Cardinality(high) :
               LET alert == call.alerts[NthOf(high, n)]
               IN  dispatches[NthOf(single, n)].payload =
                     [trackingNumber |-> alert.trackingNumber,
                      status |-> alert.metadata.status,
                      message |-> alert.message,
                      title |-> alert.title]
         /\ Cardinality(digest) = IF other = {} THEN 0 ELSE 1
         /\ \A k \in digest :
               /\ dispatches[k].payload.count = Cardinality(other)
               /\ Len(dispatches[k].payload.alerts) = Cardinality(other)
               /\ \A n \in 1..Cardinality(other) :
                     dispatches[k].payload.alerts[n] = call.alerts[NthOf(other, n)]

\* one alert goes out on its own and one in the digest
C13_Witness ==
  /\ call.fn = "notify" /\ result.done
  /\ result.notify.outcome = "completed"
  /\ PreferencesInForce.emailNotifications
  /\ OfKind(result.notify.attempts, "alert") # {}
  /\ \E k \in OfKind(result.notify.attempts, "digest") :
        result.notify.attempts[k].payload.count = 1

\* the set an admitting cycle leaves when nothing goes wrong
SetAfterAdmission ==
  SelectSeq(lastCycle.admitted \o lastCycle.before,
            LAMBDA a : ~RemovalRule(a, lastCycle.shipments, clock))

\* C11: a failing dispatch is caught inside notify and never reaches the
\* cycle; the save of the alert set comes before the first dispatch; the
\* sets in memory and in storage after the cycle are what they are when
\* every dispatch succeeds.
C11_NotifyFailureIsolated ==
  lastCycle.ran =>
    /\ lastCycle.notify.outcome \in {"none", "completed", "caught"}
    /\ lastCycle.effects # <<>> =>
         /\ lastCycle.effects[1] = "save"
         /\ \A k \in DOMAIN lastCycle.effects :
               k > 1 => lastCycle.effects[k] \in {"alert", "digest"}
    /\ lastCycle.admitted # <<>> =>
         /\ alerts = SetAfterAdmission
         /\ storedAlerts = SetAfterAdmission

\* a dispatch failed in a cycle that admitted alerts
C11_Witness ==
  /\ lastCycle.ran
  /\ lastCycle.notify.outcome = "caught"
  /\ Len(lastCycle.notify.attempts) > Len(lastCycle.notify.delivered)
  /\ lastCycle.admitted # <<>>
  /\ alerts # <<>>

\* C14: after clearAll the alert set in memory and the persisted alert set
\* are both empty, whatever they held.
C14_ClearAllEmpties ==
  lastUser.op = "clearAllAlerts" => (alerts = <<>> /\ storedAlerts = <<>>)

\* clearAll on a set with a live alert and a dismissed one
C14_Witness ==
  /\ lastUser.op = "clearAllAlerts"
  /\ lastUser.before # <<>>
  /\ \E i \in DOMAIN lastUser.persistedBefore : lastUser.persistedBefore[i].dismissed
  /\ alerts = <<>> /\ storedAlerts = <<>>

\* list after is list before with read and readAt set on the alert alertId
MarkedRead(after, before, alertId) ==
  /\ Len(after) = Len(before)
  /\ \A i \in DOMAIN before :
        after[i] = IF before[i].id = alertId
                     THEN [before[i] EXCEPT !.read = TRUE, !.readAt = clock]
                     ELSE before[i]

\* C15: markRead(alertId) sets read and readAt on the alert with that id and
\* leaves every other alert of the set, the membership of the visible list
\* and the order as they were; on an id that is not in the set it changes
\* nothing.
C15_MarkReadFrame ==
  lastUser.op = "markAlertAsRead" =>
    /\ MarkedRead(alerts, lastUser.before, lastUser.alertId)
    /\ MarkedRead(storedAlerts, lastUser.persistedBefore, lastUser.alertId)

\* the same for the set in memory only (not a claim: it locates the failure)
MarkReadFrameInMemory ==
  lastUser.op = "markAlertAsRead" =>
    MarkedRead(alerts, lastUser.before, lastUser.alertId)

\* ---- the rule engine
Derived == call.fn = "derive" /\ result.done

\* the alerts of the result the overdue rule made
OverdueAlerts ==
  {k \in DOMAIN result.alerts :
     /\ Len(result.alerts[k].message) = 4
     /\ result.alerts[k].message[4] = "day(s) overdue"}

IsOverdue(shipment, now) ==
  /\ shipment.estimatedDelivery # NoTime
  /\ now > shipment.estimatedDelivery
  /\ shipment.status \notin {"delivered", "delayed"}

\* hours since the last update, rounded down, are more than 48
IsStale(shipment, now) == now - shipment.lastUpdated >= 49 * HOUR

\* C16: the result holds one 'Shipment Delayed' alert (warning, high) of the
\* overdue rule iff estimatedDelivery is set, now is past it and the status
\* is neither delivered nor delayed; its message gives
\* ceil((now - estimatedDelivery) / 1 day) >= 1 days; for a pending, overdue,
\* not stale shipment without premium it is the only alert.
C16_OverdueRule ==
  Derived =>
    LET shipment == call.shipment
        late == call.now - shipment.estimatedDelivery
    IN  /\ Cardinality(OverdueAlerts) = IF IsOverdue(shipment, call.now) THEN 1 ELSE 0
        /\ \A k \in OverdueAlerts :
              LET alert == result.alerts[k]
                  days == alert.message[3]
              IN  /\ alert.title = "Shipment Delayed"
                  /\ alert.type = "warning"
                  /\ alert.priority = "high"
                  /\ days >= 1
                  /\ (days - 1) * DAY < late /\ late <= days * DAY
        /\ (/\ IsOverdue(shipment, call.now)
            /\ shipment.status = "pending"
            /\ ~IsStale(shipment, call.now)
            /\ call.plan = "free") => Len(result.alerts) = 1

\* a pending shipment a tick past its date: one day overdue, nothing else
C16_Witness ==
  /\ Derived
  /\ call.shipment.status = "pending"
  /\ call.now - call.shipment.estimatedDelivery = 1
  /\ Len(result.alerts) = 1
  /\ \E k \in OverdueAlerts : result.alerts[k].message[3] = 1

\* the location of the most recent entry of the history mentions the word
LatestMentions(shipment, word) ==
  LET h == shipment.historicalStatuses
  IN  /\ Len(h) > 0
      /\ h[Len(h)].location \in
           (CASE word = "weather" -> {"Weather delay", "Weather delay in transit"}
              [] word = "customs" -> {"CUSTOMS hold"}
              [] word = "address" -> {"Bad Address"})

\* title and priority of the delay alert the latest location calls for
DelayClass(shipment) ==
  IF LatestMentions(shipment, "weather") THEN <<"Weather Delay", "medium">>
  ELSE IF LatestMentions(shipment, "customs") THEN <<"Customs Processing", "medium">>
  ELSE IF LatestMentions(shipment, "address") THEN <<"Address Problem", "high">>
  ELSE <<"Shipment Delayed", "high">>

\* the alerts of the result that are no pattern alerts
PlainAlerts == {k \in DOMAIN result.alerts : result.alerts[k].metadata.pattern = Undefined}

\* C17: a delayed shipment gets exactly one delay alert, classified by the
\* location of its most recent historical status whatever the letter case:
\* weather (medium), customs (medium), address (high), else generic (high).
C17_DelayClassification ==
  (Derived /\ call.shipment.status = "delayed") =>
     /\ Cardinality(PlainAlerts) = 1
     /\ \A k \in PlainAlerts :
           <<result.alerts[k].title, result.alerts[k].priority>> = DelayClass(call.shipment)

\* the history starts at a bad address and ends elsewhere: generic delay
C17_Witness ==
  /\ Derived /\ call.shipment.status = "delayed"
  /\ Len(call.shipment.historicalStatuses) = 2
  /\ call.shipment.historicalStatuses[1].location = "Bad Address"
  /\ \E k \in PlainAlerts : result.alerts[k].title = "Shipment Delayed"

\* C18: with the premium gate inactive the result holds no alert with a
\* pattern tag and is what rules 1 to 5 give.
C18_PremiumGate ==
  (Derived /\ call.plan # "premium") =>
     /\ PlainAlerts = DOMAIN result.alerts
     /\ result.alerts =
          SelectSeq(analyzeShipmentForAlerts(call.shipment, call.previousStatus,
                                             call.now, TRUE),
                    LAMBDA a : a.metadata.pattern = Undefined)

\* the gate is inactive for a shipment both patterns match
C18_Witness ==
  /\ Derived /\ call.plan = "free"
  /\ call.shipment.carrier = "usps"
  /\ call.now - call.shipment.lastUpdated = 73 * HOUR
  /\ Len(call.shipment.historicalStatuses) = 3
  /\ Cardinality({call.shipment.historicalStatuses[i].location :
                    i \in DOMAIN call.shipment.historicalStatuses}) = 1
  /\ PlainAlerts = DOMAIN result.alerts

PatternAlerts(pattern) ==
  {k \in DOMAIN result.alerts : result.alerts[k].metadata.pattern = pattern}

UnusualRouting(shipment) ==
  Len(shipment.historicalStatuses) >
    Cardinality({shipment.historicalStatuses[i].location :
                   i \in DOMAIN shipment.historicalStatuses}) + 1

CarrierMatch(shipment, now) ==
  \/ shipment.carrier = "usps" /\ now - shipment.lastUpdated > 72 * HOUR
  \/ /\ shipment.carrier = "fedex" /\ shipment.status = "in_transit"
     /\ Len(shipment.historicalStatuses) > 0
     /\ now - shipment.historicalStatuses[1].timestamp > 5 * DAY

\* C19: with the gate active, unusual routing gives one more alert, of
\* priority high, and a carrier-specific match (USPS more than 72 hours
\* since update, FedEx in_transit more than 5 days after its first entry)
\* gives one more alert, of priority medium.
C19_PatternAlerts ==
  (Derived /\ call.plan = "premium") =>
     /\ Cardinality(PatternAlerts("unusual_routing")) =
          IF UnusualRouting(call.shipment) THEN 1 ELSE 0
     /\ \A k \in PatternAlerts("unusual_routing") : result.alerts[k].priority = "high"
     /\ Cardinality(PatternAlerts("carrier_issue")) =
          IF CarrierMatch(call.shipment, call.now) THEN 1 ELSE 0
     /\ \A k \in PatternAlerts("carrier_issue") : result.alerts[k].priority = "medium"

\* the parts of C19 taken one by one (not claims: they locate the failure)
UnusualRoutingPart ==
  (Derived /\ call.plan = "premium") =>
     /\ Cardinality(PatternAlerts("unusual_routing")) =
          IF UnusualRouting(call.shipment) THEN 1 ELSE 0
     /\ \A k \in PatternAlerts("unusual_routing") : result.alerts[k].priority = "high"

CarrierMatchPart ==
  (Derived /\ call.plan = "premium") =>
     Cardinality(PatternAlerts("carrier_issue")) =
       IF CarrierMatch(call.shipment, call.now) THEN 1 ELSE 0

CarrierPriorityPart ==
  (Derived /\ call.plan = "premium") =>
     \A k \in PatternAlerts("carrier_issue") : result.alerts[k].priority = "high"

\* C20: a candidate without a shipmentId is not admitted by a cycle and is
\* not in the alert set the cycle leaves.
C20_MalformedRejected ==
  (call.fn = "admit" /\ result.done) =>
     /\ \A k \in DOMAIN result.admitted : result.admitted[k].shipmentId # NoShipmentId
     /\ \A k \in DOMAIN result.cleaned : result.cleaned[k].shipmentId # NoShipmentId

\* the dispatches a notify call owes: one per eligible high-priority alert
\* and one digest when an eligible alert of another priority exists
DispatchesOwed ==
  Cardinality(EligibleHigh(call.alerts, PreferencesInForce))
    + (IF EligibleOther(call.alerts, PreferencesInForce) = {} THEN 0 ELSE 1)

\* C24: when the dispatch for one high-priority alert fails, the dispatches
\* for the remaining high-priority alerts and the digest of the same call
\* are still attempted.
C24_DispatchesIndependent ==
  (/\ call.fn = "notify" /\ result.done
   /\ PreferencesInForce.emailNotifications) =>
     Len(result.notify.attempts) = DispatchesOwed

\* the same when no dispatch fails (not a claim: it locates the failure)
DispatchesAllMadeWithoutFailure ==
  (/\ call.fn = "notify" /\ result.done
   /\ PreferencesInForce.emailNotifications
   /\ result.notify.outcome = "completed") =>
     Len(result.notify.attempts) = DispatchesOwed

\* the alerts of the result the stuck rule made
StuckAlerts ==
  {k \in DOMAIN result.alerts :
     /\ result.alerts[k].title = "Delivery Exception"
     /\ result.alerts[k].metadata.pattern = Undefined}

\* C26: the result holds one 'Delivery Exception' alert (error, high) of the
\* stuck rule iff the status is in_transit or pending and more than 48
\* hours have passed since lastUpdated; otherwise it holds none.
C26_StuckRule ==
  Derived =>
    /\ Cardinality(StuckAlerts) =
         IF /\ call.shipment.status \in {"in_transit", "pending"}
            /\ call.now - call.shipment.lastUpdated > 48 * HOUR
           THEN 1 ELSE 0
    /\ \A k \in StuckAlerts :
          result.alerts[k].type = "error" /\ result.alerts[k].priority = "high"

\* the same with the hours rounded down first (not a claim: it locates the
\* failure)
StuckRuleOnWholeHours ==
  Derived =>
    Cardinality(StuckAlerts) =
      IF /\ call.shipment.status \in {"in_transit", "pending"}
         /\ call.now - call.shipment.lastUpdated >= 49 * HOUR
        THEN 1 ELSE 0

\* ---- persistence
\* the content is the record the program saves: an object with an array
ExpectedRecord(stored) ==
  stored.kind = "json" /\ stored.value.tag = "object" /\ stored.value.field.tag = "array"

LoadsSafely(stored, loaded) ==
  /\ ~loaded.raised
  /\ ~ExpectedRecord(stored) => loaded.value = JsonField("array", <<>>)

\* C21: whatever is stored under the alert and shipment keys (nothing, text
\* that is no JSON, JSON that is not the expected record, such as null),
\* load returns the empty collection and does not raise; a failing save
\* returns false and does not raise.
C21_LoadNeverRaises ==
  (call.fn = "storage" /\ result.done) =>
     /\ LoadsSafely(call.store.alerts, result.loadAlerts)
     /\ LoadsSafely(call.store.shipments, result.loadShipments)
     /\ ~result.save.raised
     /\ call.writeFails => result.save.returned = FALSE

C23_HistoryAppendOnly ==
  [][\A i \in DOMAIN shipments, j \in DOMAIN shipments' :
       shipments[i].shipmentId = shipments'[j].shipmentId =>
         LET old == shipments[i].historicalStatuses
             new == shipments'[j].historicalStatuses
         IN  /\ Len(new) >= Len(old)
             /\ SubSeq(new, 1, Len(old)) = old]_vars

\* C25: the previous status handed to the rule engine for a shipment in a
\* cycle is the status the shipment with that id had in the collection the
\* preceding cycle observed, and is absent when that collection had no such
\* shipment.
C25_ChangeDetector ==
  (lastCycle.ran /\ Len(lastCycle.shipments) > 0) =>
     \A i \in DOMAIN lastCycle.shipments :
        LET matches == {j \in DOMAIN lastCycle.observed :
                          lastCycle.observed[j].shipmentId
                            = lastCycle.shipments[i].shipmentId}
        IN  /\ matches = {} => lastCycle.handed[i] = Undefined
            /\ \A j \in matches :
                  lastCycle.handed[i] = lastCycle.observed[j].status

\* the same against the previous collection the hook holds, which the run
\* on an empty collection leaves as it was (not a claim: it locates the
\* failure)
HandedFromPreviousShipments ==
  (lastCycle.ran /\ Len(lastCycle.shipments) > 0) =>
     \A i \in DOMAIN lastCycle.shipments :
        LET matches == {j \in DOMAIN lastCycle.previous :
                          lastCycle.previous[j].shipmentId
                            = lastCycle.shipments[i].shipmentId}
        IN  /\ matches = {} => lastCycle.handed[i] = Undefined
            /\ \A j \in matches :
                  lastCycle.handed[i] = lastCycle.previous[j].status

\* C27: an alert that was persisted before a page load, is younger than 7
\* days and whose shipment is in the persisted collection with a status
\* that triggers no cleanup rule, is in the alert set and in storage once
\* the initialization has loaded shipments and alerts.
C27_AlertsSurviveRestart ==
  lastUser.op = "restart" =>
     \A k \in DOMAIN lastUser.persistedBefore :
        LET alert == lastUser.persistedBefore[k]
        IN  ~RemovalRule(alert, shipments, clock) =>
              /\ \E i \in DOMAIN alerts : alerts[i] = alert
              /\ \E i \in DOMAIN storedAlerts : storedAlerts[i] = alert

\* the shipments do survive the page load (not a claim: it locates the
\* failure)
ShipmentsSurviveRestart ==
  [][(restarts' = restarts + 1 /\ Len(storedShipments) > 0) =>
        shipments' = storedShipments /\ storedShipments' = storedShipments]_vars

\* C28: every alert handed to the notifier in a cycle is in the alert set
\* the cycle returns and in the set it persists.
C28_NotifiedAlertsExist ==
  lastCycle.ran =>
     \A k \in DOMAIN lastCycle.notified :
        /\ \E i \in DOMAIN alerts : alerts[i] = lastCycle.notified[k]
        /\ \E i \in DOMAIN storedAlerts : storedAlerts[i] = lastCycle.notified[k]

\* the same on the free plan, where no carrier pattern is looked for (not a
\* claim: it locates the failure)
NotifiedAlertsExistFreePlan == plan = "free" => C28_NotifiedAlertsExist

\* C29: when an addShipment or a refreshAllShipments call completes, the
\* shipments it did not add are those the collection held just before: a
\* shipment deleted while the call was waiting stays deleted, a status
\* changed meanwhile is kept; storage holds the same collection.
C29_NoLostUpdate ==
  [][/\ (adding.active /\ ~adding'.active /\ restarts' = restarts) =>
          /\ SubSeq(shipments', 2, Len(shipments')) = shipments
          /\ storedShipments' = shipments'
     /\ (refreshing.active /\ ~refreshing'.active /\ restarts' = restarts) =>
          /\ \A j \in DOMAIN shipments' :
                \E i \in DOMAIN shipments :
                   shipments[i].shipmentId = shipments'[j].shipmentId
          /\ \A i \in DOMAIN shipments, j \in DOMAIN shipments' :
                (/\ shipments[i].shipmentId = shipments'[j].shipmentId
                 /\ shipments'[j].lastUpdated # clock) =>
                   shipments'[j] = shipments[i]
          /\ storedShipments' = shipments']_vars

\* the same for the calls during which the collection was not changed (not
\* a claim: it locates the failure)
NoLostUpdateWhenUndisturbed ==
  [][/\ (adding.active /\ ~adding'.active /\ restarts' = restarts
           /\ adding.captured = shipments) =>
          /\ SubSeq(shipments', 2, Len(shipments')) = shipments
          /\ storedShipments' = shipments'
     /\ (refreshing.active /\ ~refreshing'.active /\ restarts' = restarts
           /\ refreshing.captured = shipments) =>
          /\ \A j \in DOMAIN shipments' :
                \E i \in DOMAIN shipments :
                   shipments[i].shipmentId = shipments'[j].shipmentId
          /\ storedShipments' = shipments']_vars

\* C30: the alerts of the persisted set that are not dismissed are the
\* alerts of the visible list, in the same order and with the same field
\* values, after the initial load and after every cycle, dismiss, markRead
\* and clearAll.
C30_MemoryAndStorageAgree ==
  SelectSeq(storedAlerts, LAMBDA a : ~a.dismissed) = VisibleAlerts

\* an alert was dismissed: storage keeps it, marked, next to one that is
\* still shown
C30_Witness ==
  /\ lastUser.op = "dismissAlert"
  /\ Len(VisibleAlerts) > 0
  /\ Len(storedAlerts) = Len(lastUser.persistedBefore)
  /\ \E i \in DOMAIN storedAlerts :
        /\ storedAlerts[i].dismissed
        /\ storedAlerts[i].id = lastUser.alertId

====
